---------------------------- MODULE Spec2Model ----------------------------
(***************************************************************************)
(* Model of the SQL connection module: the connector interface             *)
(* (core/base_connector.py), the seven engine adapters (engines/*.py)      *)
(* and the connector factory (core/factory.py).                            *)
(*                                                                         *)
(* Python strings are sequences of one-character strings, so that          *)
(* str.lower() and int() are computed and not assumed.  Python values of   *)
(* a parameter bag are tagged records: [none], [str], [int], [bool].       *)
(***************************************************************************)
EXTENDS Integers, Sequences, FiniteSets, TLC

VARIABLES
    self,       \* the connector object: its engine variant, fields and conn
    native,     \* the native driver's side: handles it has open, handles made
    installed,  \* the adapter's driver module was imported (module global)
    pd,         \* the pandas module was imported (module global)
    scope,      \* position of the caller relative to a with-block
    last,       \* the latest call on the connector and its outcome
    engine,     \* factory input: the engine tag
    kwargs,     \* factory input: the parameter bag
    made        \* factory outcome

vars == <<self, native, installed, pd, scope, last, engine, kwargs, made>>

-----------------------------------------------------------------------------
(* Bounds *)

\* native connections the driver hands out in one behaviour
MaxHandles == 3

-----------------------------------------------------------------------------
(* Python values *)

None == [none |-> TRUE]
StrV(s) == [str |-> s]
IntV(i) == [int |-> i]
BoolV(b) == [bool |-> b]
Handle(i) == [handle |-> i]

IsNone(v) == "none" \in DOMAIN v
IsStr(v) == "str" \in DOMAIN v
IsInt(v) == "int" \in DOMAIN v
IsBool(v) == "bool" \in DOMAIN v
IsHandle(v) == "handle" \in DOMAIN v

\* Python truth value testing: None, "", 0 and False are false; a native
\* connection object defines neither __bool__ nor __len__ and is true.
Truthy(v) ==
    CASE IsNone(v) -> FALSE
      [] IsStr(v) -> Len(v.str) > 0
      [] IsInt(v) -> v.int # 0
      [] IsBool(v) -> v.bool
      [] OTHER -> TRUE

\* an exception: its class and what its message says
Err(type, msg) == [type |-> type, msg |-> msg]
NoError == Err("none", "")

\* the exception a native driver call raises (a subclass of Exception)
DriverError(call) == Err("DriverError", call)

\* outcomes of a call
Returned(v) == [status |-> "returned", value |-> v, error |-> NoError]
Raised(e) == [status |-> "raised", value |-> None, error |-> e]

-----------------------------------------------------------------------------
(* Strings used by the lifecycle model *)

GoodPath == <<"d", "b">>
\* a path whose parent directory does not exist: sqlite3.connect raises
BadPath == <<"x", "/", "d", "b">>
Host == <<"h">>
Db == <<"d">>
User == <<"u">>
Pw == <<"p", "w", "d">>
Odbc17 ==
    <<"O", "D", "B", "C", " ", "D", "r", "i", "v", "e", "r", " ", "1", "7",
      " ", "f", "o", "r", " ", "S", "Q", "L", " ", "S", "e", "r", "v", "e",
      "r">>
Require == <<"r", "e", "q", "u", "i", "r", "e">>

-----------------------------------------------------------------------------
(* Adapter constructors: DatabaseConnector.__init__ sets conn to None *)

SQLiteConnector(path, timeout) ==
    [kind |-> "sqlite", conn |-> None,
     args |-> [path |-> path, timeout |-> timeout]]

PostgresConnector(host, port, dbname, user, password, sslmode) ==
    [kind |-> "postgres", conn |-> None,
     args |-> [host |-> host, port |-> port, dbname |-> dbname, user |-> user,
               password |-> password, sslmode |-> sslmode,
               connect_timeout |-> IntV(10)]]

MySQLConnector(host, port, db, user, password) ==
    [kind |-> "mysql", conn |-> None,
     args |-> [host |-> host, port |-> port, db |-> db, user |-> user,
               password |-> password]]

SQLServerConnector(server, database, user, password, driver, trusted_connection) ==
    [kind |-> "sqlserver", conn |-> None,
     args |-> [server |-> server, database |-> database, user |-> user,
               password |-> password, driver |-> driver,
               trusted |-> trusted_connection]]

OracleConnector(host, port, service_name, user, password) ==
    [kind |-> "oracle", conn |-> None,
     args |-> [host |-> host, port |-> port, service_name |-> service_name,
               user |-> user, password |-> password]]

SnowflakeConnector(account, user, password, warehouse, database, schema, role) ==
    [kind |-> "snowflake", conn |-> None,
     args |-> [account |-> account, user |-> user, password |-> password,
               warehouse |-> warehouse, database |-> database,
               schema |-> schema, role |-> role]]

RedshiftConnector(host, port, dbname, user, password, sslmode) ==
    [kind |-> "redshift", conn |-> None,
     args |-> [host |-> host, port |-> port, dbname |-> dbname, user |-> user,
               password |-> password, sslmode |-> sslmode]]

-----------------------------------------------------------------------------
(* The native driver, as the connector sees it *)

\* what the driver can do on each call a handler makes; the handler decides
\* which of these calls it reaches
Rows == {<<>>, <<"r1">>, <<"r1", "r2">>}
Env ==
    [connect : BOOLEAN, makedsn : BOOLEAN, close : BOOLEAN, cursor : BOOLEAN,
     execute : BOOLEAN, fetch : BOOLEAN, commit : BOOLEAN, curclose : BOOLEAN,
     finalized : BOOLEAN, rows : Rows]

\* the calls each kind of handler can reach; the others are left to succeed
Quiet ==
    [connect |-> TRUE, makedsn |-> TRUE, close |-> TRUE, cursor |-> TRUE,
     execute |-> TRUE, fetch |-> TRUE, commit |-> TRUE, curclose |-> TRUE,
     finalized |-> FALSE, rows |-> <<>>]
ConnectEnv ==
    {e \in Env : \E c, m, f \in BOOLEAN :
        e = [Quiet EXCEPT !.connect = c, !.makedsn = m, !.finalized = f]}
CloseEnv == {e \in Env : \E c \in BOOLEAN : e = [Quiet EXCEPT !.close = c]}
CursorEnv == {e \in Env : e.connect /\ e.makedsn /\ e.close /\ ~e.finalized}

\* one driver call of a handler and whether it returned
Call(name, ok) == [call |-> name, ok |-> ok]

\* cur.fetchall() returning `rows`
Fetched(rows) == [call |-> "fetchall", ok |-> TRUE, rows |-> rows]

\* the result of a handler: the connector and the driver afterwards, the
\* outcome for the caller, and the driver calls it made, in order
Result(s, nat, out, calls) == [self |-> s, native |-> nat, out |-> out, calls |-> calls]

\* the open handles once self.conn is rebound: the connection it held is not
\* closed by connect(); it stays open while anything refers to it (a cursor,
\* an iterator of read_sql_chunks, the caller), and is closed by its
\* finalizer on a runtime that collects it at once
Rebound(s, nat, env) ==
    IF IsHandle(s.conn) /\ env.finalized THEN nat.open \ {s.conn.handle} ELSE nat.open

\* sqlite3.connect raises for a path whose parent directory is missing
DriverConnects(s, env) ==
    IF s.kind = "sqlite" /\ s.args.path = StrV(BadPath) THEN FALSE ELSE env.connect

\* as NativeConnect, with the driver's exception passed over
NativeConnect_swallow(s, nat, env, before) ==
    IF DriverConnects(s, env)
    THEN LET h == nat.made + 1
         IN Result([s EXCEPT !.conn = Handle(h)],
                   [open |-> Rebound(s, nat, env) \cup {h}, made |-> h],
                   Returned(None), before \o <<Call("connect", TRUE)>>)
    ELSE Result(s, nat, Returned(None), before \o <<Call("connect", FALSE)>>)

\* the driver's connect(): a new open handle, or an exception
NativeConnect(s, nat, env, before) ==
    IF DriverConnects(s, env)
    THEN LET h == nat.made + 1
         IN Result([s EXCEPT !.conn = Handle(h)],
                   [open |-> Rebound(s, nat, env) \cup {h}, made |-> h],
                   Returned(None), before \o <<Call("connect", TRUE)>>)
    ELSE Result(s, nat, Raised(DriverError("connect")),
                before \o <<Call("connect", FALSE)>>)

DriverNotInstalled == Err("RuntimeError", "driver not installed")
NotConnected == Err("RuntimeError", "No active connection")
AuthRequired == Err("RuntimeError", "user and password required")

-----------------------------------------------------------------------------
(* connect() of each adapter *)

SQLiteConnector_connect(s, nat, inst, env) == NativeConnect(s, nat, env, <<>>)

PostgresConnector_connect(s, nat, inst, env) ==
    IF ~inst THEN Result(s, nat, Raised(DriverNotInstalled), <<>>)
    ELSE NativeConnect(s, nat, env, <<>>)

MySQLConnector_connect(s, nat, inst, env) ==
    IF ~inst THEN Result(s, nat, Raised(DriverNotInstalled), <<>>)
    ELSE NativeConnect(s, nat, env, <<>>)

\* as SQLServerConnector_connect, without the check of user and password
SQLServerConnector_connect_unchecked(s, nat, inst, env) ==
    IF ~inst THEN Result(s, nat, Raised(DriverNotInstalled), <<>>)
    ELSE NativeConnect(s, nat, env, <<>>)

SQLServerConnector_connect(s, nat, inst, env) ==
    IF ~inst THEN Result(s, nat, Raised(DriverNotInstalled), <<>>)
    ELSE IF Truthy(s.args.trusted) THEN NativeConnect(s, nat, env, <<>>)
    ELSE IF ~(Truthy(s.args.user) /\ Truthy(s.args.password))
         THEN Result(s, nat, Raised(AuthRequired), <<>>)
    ELSE NativeConnect(s, nat, env, <<>>)

OracleConnector_connect(s, nat, inst, env) ==
    IF ~inst THEN Result(s, nat, Raised(DriverNotInstalled), <<>>)
    ELSE IF ~env.makedsn
         THEN Result(s, nat, Raised(DriverError("makedsn")), <<Call("makedsn", FALSE)>>)
    ELSE NativeConnect(s, nat, env, <<Call("makedsn", TRUE)>>)

SnowflakeConnector_connect(s, nat, inst, env) ==
    IF ~inst THEN Result(s, nat, Raised(DriverNotInstalled), <<>>)
    ELSE NativeConnect(s, nat, env, <<>>)

RedshiftConnector_connect(s, nat, inst, env) ==
    IF ~inst THEN Result(s, nat, Raised(DriverNotInstalled), <<>>)
    ELSE NativeConnect(s, nat, env, <<>>)

\* dynamic dispatch of the abstract connect()
connect(s, nat, inst, env) ==
    CASE s.kind = "sqlite" -> SQLiteConnector_connect(s, nat, inst, env)
      [] s.kind = "postgres" -> PostgresConnector_connect(s, nat, inst, env)
      [] s.kind = "mysql" -> MySQLConnector_connect(s, nat, inst, env)
      [] s.kind = "sqlserver" -> SQLServerConnector_connect(s, nat, inst, env)
      [] s.kind = "oracle" -> OracleConnector_connect(s, nat, inst, env)
      [] s.kind = "snowflake" -> SnowflakeConnector_connect(s, nat, inst, env)
      [] s.kind = "redshift" -> RedshiftConnector_connect(s, nat, inst, env)

-----------------------------------------------------------------------------
(* DatabaseConnector *)

is_connected(s) == s.conn # None

\* as close, with the reset of the handle after the call instead of in a
\* finally clause
close_noreset(s, nat, env) ==
    IF Truthy(s.conn)
    THEN IF env.close
         THEN Result([s EXCEPT !.conn = None],
                     [nat EXCEPT !.open = @ \ {s.conn.handle}],
                     Returned(None), <<Call("close", TRUE)>>)
         ELSE Result(s, nat, Raised(DriverError("close")), <<Call("close", FALSE)>>)
    ELSE Result(s, nat, Returned(None), <<>>)

\* try: self.conn.close()  finally: self.conn = None  -- there is no except
\* clause, so what conn.close() raises leaves close() after the handle is reset
close(s, nat, env) ==
    IF Truthy(s.conn)
    THEN IF env.close
         THEN Result([s EXCEPT !.conn = None],
                     [nat EXCEPT !.open = @ \ {s.conn.handle}],
                     Returned(None), <<Call("close", TRUE)>>)
         ELSE Result([s EXCEPT !.conn = None], nat,
                     Raised(DriverError("close")), <<Call("close", FALSE)>>)
    ELSE Result(s, nat, Returned(None), <<>>)

\* as _ensure_connected, without the check
_ensure_connected_skip(s) == Returned(None)

\* _ensure_connected raises, or returns None
_ensure_connected(s) ==
    IF ~Truthy(s.conn) THEN Raised(NotConnected) ELSE Returned(None)

\* the finally clause of query, execute and ping: cur.close() with every
\* Exception passed over
CloseCursor(env) == <<Call("cur.close", env.curclose)>>

\* as execute, without the try/except around commit()
execute_commit_raises(s, nat, env) ==
    IF _ensure_connected(s).status = "raised"
    THEN Result(s, nat, _ensure_connected(s), <<>>)
    ELSE IF ~env.cursor
    THEN Result(s, nat, Raised(DriverError("cursor")), <<Call("cursor", FALSE)>>)
    ELSE IF ~env.execute
    THEN Result(s, nat, Raised(DriverError("execute")),
                <<Call("cursor", TRUE), Call("execute", FALSE)>> \o CloseCursor(env))
    ELSE Result(s, nat, IF env.commit THEN Returned(None) ELSE Raised(DriverError("commit")),
                <<Call("cursor", TRUE), Call("execute", TRUE),
                  Call("commit", env.commit)>> \o CloseCursor(env))

execute(s, nat, env) ==
    IF _ensure_connected(s).status = "raised"
    THEN Result(s, nat, _ensure_connected(s), <<>>)
    ELSE IF ~env.cursor
    THEN Result(s, nat, Raised(DriverError("cursor")), <<Call("cursor", FALSE)>>)
    ELSE IF ~env.execute
    THEN Result(s, nat, Raised(DriverError("execute")),
                <<Call("cursor", TRUE), Call("execute", FALSE)>> \o CloseCursor(env))
    ELSE Result(s, nat, Returned(None),
                <<Call("cursor", TRUE), Call("execute", TRUE),
                  Call("commit", env.commit)>> \o CloseCursor(env))

\* as query, with cur.close() after the fetch instead of in a finally
query_close_after_fetch(s, nat, env) ==
    IF _ensure_connected(s).status = "raised"
    THEN Result(s, nat, _ensure_connected(s), <<>>)
    ELSE IF ~env.cursor
    THEN Result(s, nat, Raised(DriverError("cursor")), <<Call("cursor", FALSE)>>)
    ELSE IF ~env.execute
    THEN Result(s, nat, Raised(DriverError("execute")),
                <<Call("cursor", TRUE), Call("execute", FALSE)>>)
    ELSE IF ~env.fetch
    THEN Result(s, nat, Raised(DriverError("fetchall")),
                <<Call("cursor", TRUE), Call("execute", TRUE),
                  Call("fetchall", FALSE)>>)
    ELSE Result(s, nat, Returned([rows |-> env.rows]),
                <<Call("cursor", TRUE), Call("execute", TRUE),
                  Fetched(env.rows)>> \o CloseCursor(env))

query(s, nat, env) ==
    IF _ensure_connected(s).status = "raised"
    THEN Result(s, nat, _ensure_connected(s), <<>>)
    ELSE IF ~env.cursor
    THEN Result(s, nat, Raised(DriverError("cursor")), <<Call("cursor", FALSE)>>)
    ELSE IF ~env.execute
    THEN Result(s, nat, Raised(DriverError("execute")),
                <<Call("cursor", TRUE), Call("execute", FALSE)>> \o CloseCursor(env))
    ELSE IF ~env.fetch
    THEN Result(s, nat, Raised(DriverError("fetchall")),
                <<Call("cursor", TRUE), Call("execute", TRUE),
                  Call("fetchall", FALSE)>> \o CloseCursor(env))
    ELSE Result(s, nat, Returned([rows |-> env.rows]),
                <<Call("cursor", TRUE), Call("execute", TRUE),
                  Fetched(env.rows)>> \o CloseCursor(env))

\* the outer except Exception turns every raise into return False
DatabaseConnector_ping(s, nat, env) ==
    IF _ensure_connected(s).status = "raised"
    THEN Result(s, nat, Returned(BoolV(FALSE)), <<>>)
    ELSE IF ~env.cursor
    THEN Result(s, nat, Returned(BoolV(FALSE)), <<Call("cursor", FALSE)>>)
    ELSE IF ~env.execute
    THEN Result(s, nat, Returned(BoolV(FALSE)),
                <<Call("cursor", TRUE), Call("execute", FALSE)>> \o CloseCursor(env))
    ELSE IF ~env.fetch
    THEN Result(s, nat, Returned(BoolV(FALSE)),
                <<Call("cursor", TRUE), Call("execute", TRUE),
                  Call("fetchone", FALSE)>> \o CloseCursor(env))
    ELSE Result(s, nat, Returned(BoolV(TRUE)),
                <<Call("cursor", TRUE), Call("execute", TRUE),
                  Call("fetchone", TRUE)>> \o CloseCursor(env))

\* as OracleConnector_ping, without the try/except
OracleConnector_ping_raises(s, nat, env) ==
    IF s.conn = None
    THEN Result(s, nat, Raised(Err("AttributeError", "cursor")), <<>>)
    ELSE IF ~env.cursor
    THEN Result(s, nat, Raised(DriverError("cursor")), <<Call("cursor", FALSE)>>)
    ELSE IF ~env.execute
    THEN Result(s, nat, Raised(DriverError("execute")),
                <<Call("cursor", TRUE), Call("execute", FALSE)>>)
    ELSE IF ~env.fetch
    THEN Result(s, nat, Raised(DriverError("fetchone")),
                <<Call("cursor", TRUE), Call("execute", TRUE), Call("fetchone", FALSE)>>)
    ELSE Result(s, nat, IF env.curclose THEN Returned(BoolV(TRUE)) ELSE Raised(DriverError("cur.close")),
                <<Call("cursor", TRUE), Call("execute", TRUE),
                  Call("fetchone", TRUE), Call("cur.close", env.curclose)>>)

\* Oracle's override: no _ensure_connected (None.cursor() is an AttributeError
\* the except clause catches) and cur.close() inside the try, after the fetch
OracleConnector_ping(s, nat, env) ==
    IF s.conn = None
    THEN Result(s, nat, Returned(BoolV(FALSE)), <<>>)
    ELSE IF ~env.cursor
    THEN Result(s, nat, Returned(BoolV(FALSE)), <<Call("cursor", FALSE)>>)
    ELSE IF ~env.execute
    THEN Result(s, nat, Returned(BoolV(FALSE)),
                <<Call("cursor", TRUE), Call("execute", FALSE)>>)
    ELSE IF ~env.fetch
    THEN Result(s, nat, Returned(BoolV(FALSE)),
                <<Call("cursor", TRUE), Call("execute", TRUE), Call("fetchone", FALSE)>>)
    ELSE Result(s, nat, Returned(BoolV(env.curclose)),
                <<Call("cursor", TRUE), Call("execute", TRUE),
                  Call("fetchone", TRUE), Call("cur.close", env.curclose)>>)

ping(s, nat, env) ==
    IF s.kind = "oracle" THEN OracleConnector_ping(s, nat, env)
    ELSE DatabaseConnector_ping(s, nat, env)

\* __enter__: connect(), then return self
__enter__(s, nat, inst, env) ==
    LET r == connect(s, nat, inst, env)
    IN IF r.out.status = "raised" THEN r ELSE [r EXCEPT !.out = Returned(r.self)]

\* __exit__: close(), then return False
__exit__(s, nat, env) ==
    LET r == close(s, nat, env)
    IN IF r.out.status = "raised" THEN r ELSE [r EXCEPT !.out = Returned(BoolV(FALSE))]

\* what leaves a with statement whose body ended with `pending` (NoError
\* when it ended normally) and whose __exit__ had outcome `out`: an exception
\* of __exit__ replaces the pending one, a false return lets it through
Propagated(pending, out) ==
    IF out.status = "raised" THEN out.error
    ELSE IF Truthy(out.value) THEN NoError
    ELSE pending

-----------------------------------------------------------------------------
(* read_sql() and read_sql_chunks(): reads through pandas, when installed *)

PandasNotInstalled == Err("RuntimeError", "pandas is not installed")

\* the `params or {}` of both reads
EmptyDict == [dict |-> <<>>]
SomeParams == [dict |-> <<"p">>]
Params == {None, EmptyDict, SomeParams}
ParamsOrEmpty(params) == IF params = None \/ params = EmptyDict THEN EmptyDict ELSE params

\* the chunk sizes a caller passes
ChunkSizes == {IntV(1), IntV(2)}

\* pd.read_sql(sql, con, params=..., chunksize=...): the library's call on
\* the handle, which returns a frame (or an iterator of frames) or raises
PdReadSql(con, params, chunksize, ok) ==
    [call |-> "pd.read_sql", ok |-> ok, con |-> con, params |-> params,
     chunksize |-> chunksize]
DataFrame(con) == [frame |-> con]
LibraryError == Err("DatabaseError", "pd.read_sql")

\* as read_sql, with the connection checked before the library
read_sql_connection_first(s, nat, lib, params, ok) ==
    IF _ensure_connected(s).status = "raised"
    THEN Result(s, nat, _ensure_connected(s), <<>>)
    ELSE IF ~lib THEN Result(s, nat, Raised(PandasNotInstalled), <<>>)
    ELSE Result(s, nat, IF ok THEN Returned(DataFrame(s.conn)) ELSE Raised(LibraryError),
                <<PdReadSql(s.conn, ParamsOrEmpty(params), None, ok)>>)

read_sql(s, nat, lib, params, ok) ==
    IF ~lib THEN Result(s, nat, Raised(PandasNotInstalled), <<>>)
    ELSE IF _ensure_connected(s).status = "raised"
    THEN Result(s, nat, _ensure_connected(s), <<>>)
    ELSE Result(s, nat, IF ok THEN Returned(DataFrame(s.conn)) ELSE Raised(LibraryError),
                <<PdReadSql(s.conn, ParamsOrEmpty(params), None, ok)>>)

read_sql_chunks(s, nat, lib, params, chunksize, ok) ==
    IF ~lib THEN Result(s, nat, Raised(PandasNotInstalled), <<>>)
    ELSE IF _ensure_connected(s).status = "raised"
    THEN Result(s, nat, _ensure_connected(s), <<>>)
    ELSE Result(s, nat, IF ok THEN Returned(DataFrame(s.conn)) ELSE Raised(LibraryError),
                <<PdReadSql(s.conn, ParamsOrEmpty(params), chunksize, ok)>>)

-----------------------------------------------------------------------------
(* The connector's lifecycle: one action per call of a caller *)

\* connectors a caller builds with the adapters' constructors
InitialConnectors ==
    { SQLiteConnector(StrV(GoodPath), IntV(5)),
      SQLiteConnector(StrV(BadPath), IntV(5)),
      PostgresConnector(StrV(Host), IntV(5432), StrV(Db), StrV(User), StrV(Pw), None),
      MySQLConnector(StrV(Host), IntV(3306), StrV(Db), StrV(User), StrV(Pw)),
      SQLServerConnector(StrV(Host), StrV(Db), None, None, StrV(Odbc17), BoolV(TRUE)),
      SQLServerConnector(StrV(Host), StrV(Db), StrV(User), StrV(Pw), StrV(Odbc17), BoolV(FALSE)),
      SQLServerConnector(StrV(Host), StrV(Db), None, None, StrV(Odbc17), BoolV(FALSE)),
      OracleConnector(StrV(Host), IntV(1521), StrV(Db), StrV(User), StrV(Pw)),
      SnowflakeConnector(StrV(Host), StrV(User), StrV(Pw), StrV(Db), StrV(Db), StrV(Db), None),
      RedshiftConnector(StrV(Host), IntV(5439), StrV(Db), StrV(User), StrV(Pw), StrV(Require)) }

\* the record of a call: the handle before it, its outcome, its driver calls,
\* and for __exit__ the exception the with-body ended with
Called(op, pre, r, pending) ==
    [op |-> op, pre |-> pre, out |-> r.out, calls |-> r.calls, pending |-> pending]

NotCalled == [status |-> "none"]
NoBag == <<>>

Init ==
    /\ self \in InitialConnectors
    /\ native = [open |-> {}, made |-> 0]
    \* sqlite3 is part of the standard library and imported unguarded
    /\ installed \in (IF self.kind = "sqlite" THEN {TRUE} ELSE BOOLEAN)
    /\ pd \in BOOLEAN
    /\ scope = "outside"
    /\ last = Called("__init__", None, Result(self, native, Returned(None), <<>>), NoError)
    /\ engine = <<>>
    /\ kwargs = NoBag
    /\ made = NotCalled

Apply(op, r, pending) ==
    /\ self' = r.self
    /\ native' = r.native
    /\ last' = Called(op, self.conn, r, pending)
    /\ UNCHANGED <<installed, pd, engine, kwargs, made>>

Call_connect ==
    \E env \in ConnectEnv :
        /\ native.made < MaxHandles
        /\ Apply("connect", connect(self, native, installed, env), NoError)
        /\ UNCHANGED scope

Call_close ==
    \E env \in CloseEnv :
        /\ Apply("close", close(self, native, env), NoError)
        /\ UNCHANGED scope

Call_query ==
    \E env \in CursorEnv :
        /\ Apply("query", query(self, native, env), NoError)
        /\ UNCHANGED scope

Call_execute ==
    \E env \in CursorEnv :
        /\ Apply("execute", execute(self, native, env), NoError)
        /\ UNCHANGED scope

Call_ping ==
    \E env \in CursorEnv :
        /\ Apply("ping", ping(self, native, env), NoError)
        /\ UNCHANGED scope

\* a with statement begins: the body is entered when __enter__ returns
With_enter ==
    \E env \in ConnectEnv :
        /\ scope = "outside"
        /\ native.made < MaxHandles
        /\ LET r == __enter__(self, native, installed, env)
           IN /\ Apply("__enter__", r, NoError)
              /\ scope' = IF r.out.status = "raised" THEN "outside" ELSE "inside"

\* the body of the with statement ends, normally or with an exception of
\* its own, and __exit__ runs
BodyError == Err("BodyError", "raised in the with-body")

With_exit ==
    \E env \in CloseEnv, pending \in {NoError, BodyError} :
        /\ scope = "inside"
        /\ Apply("__exit__", __exit__(self, native, env), pending)
        /\ scope' = "outside"

Call_read_sql ==
    \E params \in Params, ok \in BOOLEAN :
        /\ Apply("read_sql", read_sql(self, native, pd, params, ok), NoError)
        /\ UNCHANGED scope

Call_read_sql_chunks ==
    \E params \in Params, chunksize \in ChunkSizes, ok \in BOOLEAN :
        /\ Apply("read_sql_chunks",
                 read_sql_chunks(self, native, pd, params, chunksize, ok), NoError)
        /\ UNCHANGED scope

Next ==
    \/ Call_connect
    \/ Call_close
    \/ Call_query
    \/ Call_execute
    \/ Call_ping
    \/ Call_read_sql
    \/ Call_read_sql_chunks
    \/ With_enter
    \/ With_exit

Spec == Init /\ [][Next]_vars

TypeOK ==
    /\ self.conn = None \/ (IsHandle(self.conn) /\ self.conn.handle \in 1..MaxHandles)
    /\ native.open \subseteq 1..native.made
    /\ scope \in {"outside", "inside"}

-----------------------------------------------------------------------------
(* Properties of the connector's lifecycle *)

\* the driver calls of the latest call on the connector
Made(name) == {i \in DOMAIN last.calls : last.calls[i].call = name}
Ok(name) == \E i \in Made(name) : last.calls[i].ok
Failed(name) == \E i \in Made(name) : ~last.calls[i].ok
raised == last.out.status = "raised"
returned == last.out.status = "returned"

\* C1: once close() has been called the connector is unconnected, whatever
\* its state was before (never connected, connected, already closed) and
\* whether or not the native handle's close() failed.
C1_UnconnectedAfterClose ==
    last.op = "close" => ~is_connected(self) /\ self.conn = None

\* C1 witness: close() on a connected instance whose native close() failed
C1_Witness ==
    /\ last.op = "close"
    /\ last.pre # None
    /\ Failed("close")
    /\ ~is_connected(self)

\* C2: close() never raises outward: it returns normally in every state,
\* also when the native connection's close() raises.
C2_CloseNeverRaises ==
    last.op = "close" => returned

\* C3 as claimed: a failed connect() leaves the instance unconnected, also
\* on an instance that was already connected.
C3_FailedConnectLeavesUnconnected ==
    (last.op = "connect" /\ raised) => ~is_connected(self)

\* C3 as amended: when the native driver raises in connect(), connect()
\* raises that error to the caller, and a connect() that raises leaves the
\* handle as it was: an unconnected instance stays unconnected, an instance
\* that was already connected keeps its previous handle.
C3_FailedConnectKeepsHandle ==
    last.op = "connect" =>
        /\ Failed("connect") => last.out = Raised(DriverError("connect"))
        /\ Failed("makedsn") => last.out = Raised(DriverError("makedsn"))
        /\ (self.kind = "sqlite" /\ self.args.path = StrV(BadPath)) => raised
        /\ raised => self.conn = last.pre
        /\ (raised /\ last.pre = None) => ~is_connected(self)

\* C3 witness: connect() on a fresh SQLite connector whose path has no
\* parent directory has raised the driver's error
C3_Witness ==
    /\ last.op = "connect"
    /\ self.kind = "sqlite"
    /\ self.args.path = StrV(BadPath)
    /\ last.pre = None
    /\ last.out = Raised(DriverError("connect"))
    /\ ~is_connected(self)

\* C4: ping() never raises, in the base implementation and in Oracle's: it
\* returns False whenever the instance is not connected or the cursor
\* creation, the probe query or the fetch raises, and True only when
\* connected and the probe succeeded.
C4_PingNeverRaises ==
    last.op = "ping" =>
        /\ returned
        /\ last.out.value \in {BoolV(TRUE), BoolV(FALSE)}
        /\ (last.pre = None \/ Failed("cursor") \/ Failed("execute") \/ Failed("fetchone"))
               => last.out.value = BoolV(FALSE)
        /\ last.out.value = BoolV(TRUE)
               => last.pre # None /\ Ok("cursor") /\ Ok("execute") /\ Ok("fetchone")

\* C4 witness: Oracle's ping() on an instance that is not connected
C4_Witness ==
    /\ last.op = "ping"
    /\ self.kind = "oracle"
    /\ last.pre = None
    /\ last.out = Returned(BoolV(FALSE))

\* C5: query() on a connector never opened or closed raises "not connected"
\* without a driver call; on a connected one it returns the rows the driver
\* fetched and lets through a driver error of cursor/execute/fetchall.
C5_Query ==
    last.op = "query" =>
        /\ last.pre = None => last.out = Raised(NotConnected) /\ last.calls = <<>>
        /\ last.pre # None =>
             /\ Failed("cursor") => last.out = Raised(DriverError("cursor"))
             /\ Failed("execute") => last.out = Raised(DriverError("execute"))
             /\ Failed("fetchall") => last.out = Raised(DriverError("fetchall"))
             /\ Ok("fetchall") =>
                  \E i \in Made("fetchall") : last.out = Returned([rows |-> last.calls[i].rows])
             /\ Made("cursor") # {}
             /\ raised \/ Ok("fetchall")

\* C5 witness: query() on a connector that was opened and closed again
C5_Witness ==
    /\ last.op = "query"
    /\ last.pre = None
    /\ native.made > 0
    /\ last.out = Raised(NotConnected)

\* C6 as claimed: execute() on a connected instance returns normally when
\* the statement step succeeds, whether or not commit() raises, and raises
\* only when the statement step itself raises, without a commit.
C6_RaisesOnlyOnStatement ==
    (last.op = "execute" /\ last.pre # None) =>
        /\ Ok("execute") => returned /\ Made("commit") # {}
        /\ raised => Failed("execute") /\ Made("commit") = {}

\* C6 as amended: execute() on a connected instance returns normally when
\* the statement step succeeds, whether or not commit() raises; it raises
\* only when obtaining the cursor or the statement step raises, and then no
\* commit is attempted.
C6_Execute ==
    (last.op = "execute" /\ last.pre # None) =>
        /\ Ok("execute") => last.out = Returned(None) /\ Made("commit") # {}
        /\ raised => /\ Failed("cursor") \/ Failed("execute")
                     /\ Made("commit") = {}
        /\ Failed("execute") => last.out = Raised(DriverError("execute"))
        /\ Failed("cursor") => last.out = Raised(DriverError("cursor"))

\* C6 witness: execute() returned although commit() raised
C6_Witness ==
    /\ last.op = "execute"
    /\ last.pre # None
    /\ Ok("execute")
    /\ Failed("commit")
    /\ last.out = Returned(None)

\* C7: a with-block connects on entry and closes on exit, so that the
\* connector is unconnected after the block however the body ended, and an
\* exception of the body leaves the with statement unchanged.
C7_ScopedUse ==
    /\ (last.op = "__enter__" /\ returned) => is_connected(self) /\ scope = "inside"
    /\ last.op = "__exit__" =>
         /\ ~is_connected(self)
         /\ Propagated(last.pending, last.out) = last.pending

-----------------------------------------------------------------------------
(* Python built-ins the factory uses *)

UpperCase ==
    <<"A", "B", "C", "D", "E", "F", "G", "H", "I", "J", "K", "L", "M",
      "N", "O", "P", "Q", "R", "S", "T", "U", "V", "W", "X", "Y", "Z">>
LowerCase ==
    <<"a", "b", "c", "d", "e", "f", "g", "h", "i", "j", "k", "l", "m",
      "n", "o", "p", "q", "r", "s", "t", "u", "v", "w", "x", "y", "z">>

\* str.lower() on ASCII text: every upper-case letter to its lower-case one
LowerChar(c) ==
    IF \E i \in DOMAIN UpperCase : UpperCase[i] = c
    THEN LowerCase[CHOOSE i \in DOMAIN UpperCase : UpperCase[i] = c]
    ELSE c
lower(s) == [i \in DOMAIN s |-> LowerChar(s[i])]

Digits == <<"0", "1", "2", "3", "4", "5", "6", "7", "8", "9">>
IsDigit(c) == \E i \in DOMAIN Digits : Digits[i] = c
DigitValue(c) == (CHOOSE i \in DOMAIN Digits : Digits[i] = c) - 1

RECURSIVE DecimalValue(_)
DecimalValue(s) ==
    IF Len(s) = 0 THEN 0
    ELSE 10 * DecimalValue(SubSeq(s, 1, Len(s) - 1)) + DigitValue(s[Len(s)])

\* int(v) for an int, a bool, None, and a string without sign, blanks or
\* underscores: the number a string of digits denotes, ValueError for any
\* other string, TypeError for None
int(v) ==
    CASE IsInt(v) -> Returned(v)
      [] IsBool(v) -> Returned(IntV(IF v.bool THEN 1 ELSE 0))
      [] IsStr(v) ->
           IF Len(v.str) > 0 /\ \A i \in DOMAIN v.str : IsDigit(v.str[i])
           THEN Returned(IntV(DecimalValue(v.str)))
           ELSE Raised(Err("ValueError", "invalid literal for int()"))
      [] OTHER -> Raised(Err("TypeError", "int() argument"))

\* bool(v)
bool(v) == BoolV(Truthy(v))

\* dict.get(key, default)
get(d, key, default) == IF key \in DOMAIN d THEN d[key] ELSE default

-----------------------------------------------------------------------------
(* The connector factory *)

sqlite == <<"s", "q", "l", "i", "t", "e">>
postgres == <<"p", "o", "s", "t", "g", "r", "e", "s">>
mysql == <<"m", "y", "s", "q", "l">>
sqlserver == <<"s", "q", "l", "s", "e", "r", "v", "e", "r">>
oracle == <<"o", "r", "a", "c", "l", "e">>
snowflake == <<"s", "n", "o", "w", "f", "l", "a", "k", "e">>
redshift == <<"r", "e", "d", "s", "h", "i", "f", "t">>

\* EngineName
EngineName == {sqlite, postgres, mysql, sqlserver, oracle, snowflake, redshift}

\* the KeyError _need raises: the required names absent from the bag, in
\* the order of the required names
MissingArguments(names) ==
    [type |-> "KeyError", msg |-> "Faltan argumentos requeridos", names |-> names]

\* as _need, naming every required name in the error
_need_all(kw, names) ==
    IF \A i \in DOMAIN names : names[i] \in DOMAIN kw
    THEN Returned([i \in DOMAIN names |-> kw[names[i]]])
    ELSE Raised(MissingArguments(names))

_need(kw, names) ==
    IF \A i \in DOMAIN names : names[i] \in DOMAIN kw
    THEN Returned([i \in DOMAIN names |-> kw[names[i]]])
    ELSE Raised(MissingArguments(SelectSeq(names, LAMBDA n : n \notin DOMAIN kw)))

UnsupportedEngine == Err("ValueError", "Motor no soportado")
SQLServerAuthRequired ==
    Err("KeyError", "Para SQL Server sin 'trusted_connection' se requieren 'user' y 'password'.")

get_sqlite(kw) ==
    LET need == _need(kw, <<"path">>)
        timeout == int(get(kw, "timeout", IntV(5)))
    IN IF need.status = "raised" THEN need
       ELSE IF timeout.status = "raised" THEN timeout
       ELSE Returned(SQLiteConnector(need.value[1], timeout.value))

get_postgres(kw) ==
    LET need == _need(kw, <<"host", "dbname", "user", "password">>)
        port == int(get(kw, "port", IntV(5432)))
        sslmode == get(kw, "sslmode", None)
    IN IF need.status = "raised" THEN need
       ELSE IF port.status = "raised" THEN port
       ELSE Returned(PostgresConnector(need.value[1], port.value, need.value[2],
                                       need.value[3], need.value[4], sslmode))

get_mysql(kw) ==
    LET need == _need(kw, <<"host", "db", "user", "password">>)
        port == int(get(kw, "port", IntV(3306)))
    IN IF need.status = "raised" THEN need
       ELSE IF port.status = "raised" THEN port
       ELSE Returned(MySQLConnector(need.value[1], port.value, need.value[2],
                                    need.value[3], need.value[4]))

\* as get_sqlserver, with the check of user and password left to the adapter
get_sqlserver_unchecked(kw) ==
    LET need == _need(kw, <<"server", "database">>)
        driver == get(kw, "driver", StrV(Odbc17))
        trusted == bool(get(kw, "trusted_connection", BoolV(FALSE)))
        user == get(kw, "user", None)
        password == get(kw, "password", None)
    IN IF need.status = "raised" THEN need
       ELSE IF trusted.bool
       THEN Returned(SQLServerConnector(need.value[1], need.value[2], None, None,
                                        driver, BoolV(TRUE)))
       ELSE Returned(SQLServerConnector(need.value[1], need.value[2], user, password,
                                        driver, BoolV(FALSE)))

get_sqlserver(kw) ==
    LET need == _need(kw, <<"server", "database">>)
        driver == get(kw, "driver", StrV(Odbc17))
        trusted == bool(get(kw, "trusted_connection", BoolV(FALSE)))
        user == get(kw, "user", None)
        password == get(kw, "password", None)
    IN IF need.status = "raised" THEN need
       ELSE IF trusted.bool
       THEN Returned(SQLServerConnector(need.value[1], need.value[2], None, None,
                                        driver, BoolV(TRUE)))
       ELSE IF ~(Truthy(user) /\ Truthy(password))
       THEN Raised(SQLServerAuthRequired)
       ELSE Returned(SQLServerConnector(need.value[1], need.value[2], user, password,
                                        driver, BoolV(FALSE)))

get_oracle(kw) ==
    LET need == _need(kw, <<"host", "service_name", "user", "password">>)
        port == int(get(kw, "port", IntV(1521)))
    IN IF need.status = "raised" THEN need
       ELSE IF port.status = "raised" THEN port
       ELSE Returned(OracleConnector(need.value[1], port.value, need.value[2],
                                     need.value[3], need.value[4]))

get_snowflake(kw) ==
    LET need == _need(kw, <<"account", "user", "password", "warehouse", "database", "schema">>)
        role == get(kw, "role", None)
    IN IF need.status = "raised" THEN need
       ELSE Returned(SnowflakeConnector(need.value[1], need.value[2], need.value[3],
                                        need.value[4], need.value[5], need.value[6], role))

\* as get_redshift, with the default port of the postgres branch
get_redshift_port_of_postgres(kw) ==
    LET need == _need(kw, <<"host", "dbname", "user", "password">>)
        port == int(get(kw, "port", IntV(5432)))
        sslmode == get(kw, "sslmode", StrV(Require))
    IN IF need.status = "raised" THEN need
       ELSE IF port.status = "raised" THEN port
       ELSE Returned(RedshiftConnector(need.value[1], port.value, need.value[2],
                                       need.value[3], need.value[4], sslmode))

get_redshift(kw) ==
    LET need == _need(kw, <<"host", "dbname", "user", "password">>)
        port == int(get(kw, "port", IntV(5439)))
        sslmode == get(kw, "sslmode", StrV(Require))
    IN IF need.status = "raised" THEN need
       ELSE IF port.status = "raised" THEN port
       ELSE Returned(RedshiftConnector(need.value[1], port.value, need.value[2],
                                       need.value[3], need.value[4], sslmode))

\* as get_connector, comparing the tag as given
get_connector_exact(tag, kw) ==
    LET e == tag
    IN CASE e = sqlite -> get_sqlite(kw)
         [] e = postgres -> get_postgres(kw)
         [] e = mysql -> get_mysql(kw)
         [] e = sqlserver -> get_sqlserver(kw)
         [] e = oracle -> get_oracle(kw)
         [] e = snowflake -> get_snowflake(kw)
         [] e = redshift -> get_redshift(kw)
         [] OTHER -> Raised(UnsupportedEngine)

get_connector(tag, kw) ==
    LET e == lower(tag)
    IN CASE e = sqlite -> get_sqlite(kw)
         [] e = postgres -> get_postgres(kw)
         [] e = mysql -> get_mysql(kw)
         [] e = sqlserver -> get_sqlserver(kw)
         [] e = oracle -> get_oracle(kw)
         [] e = snowflake -> get_snowflake(kw)
         [] e = redshift -> get_redshift(kw)
         [] OTHER -> Raised(UnsupportedEngine)

-----------------------------------------------------------------------------
(* Calls of the factory: the inputs are drawn in FactoryInit *)

\* engine tags a caller passes: the seven names, spellings of them in other
\* letter cases, and tags that are none of them
OtherCaseTags ==
    { <<"S", "Q", "L", "i", "t", "e">>,
      <<"P", "O", "S", "T", "G", "R", "E", "S">>,
      <<"M", "y", "S", "q", "l">>,
      <<"S", "q", "l", "S", "e", "r", "v", "e", "r">>,
      <<"O", "r", "a", "c", "l", "e">>,
      <<"S", "N", "O", "W", "F", "L", "A", "K", "E">>,
      <<"R", "e", "d", "S", "h", "i", "f", "t">> }
UnknownTags ==
    { <<"n", "o", "t", "-", "a", "-", "r", "e", "a", "l", "-", "e", "n", "g", "i", "n", "e">>,
      <<>>,
      <<"s", "q", "l", "i", "t", "e", "3">>,
      <<"p", "o", "s", "t", "g", "r", "e", "s", "q", "l">>,
      <<" ", "m", "y", "s", "q", "l">>,
      <<"m", "s", "s", "q", "l">> }
EngineTags == EngineName \cup OtherCaseTags \cup UnknownTags

\* the values a caller passes under each name of the bag
Values(key) ==
    CASE key = "timeout" ->
           {IntV(30), StrV(<<"3", "0">>), StrV(<<"f", "a", "s", "t">>), None}
      [] key = "port" ->
           {IntV(6000), StrV(<<"6", "0", "0", "0">>), StrV(<<"x">>), None}
      [] key = "user" -> {StrV(User), StrV(<<>>), None}
      [] key = "password" -> {StrV(Pw), StrV(<<>>)}
      [] key = "sslmode" -> {StrV(<<"d", "i", "s", "a", "b", "l", "e">>), None}
      [] key = "role" -> {StrV(<<"d", "e", "v">>), None}
      [] key = "driver" -> {StrV(<<"F", "r", "e", "e", "T", "D", "S">>)}
      [] key = "trusted_connection" ->
           {BoolV(TRUE), BoolV(FALSE), None, StrV(<<"n", "o">>), IntV(0)}
      [] key = "path" -> {StrV(GoodPath)}
      [] OTHER -> {StrV(Db)}

\* the names of the parameter table, per engine
Required(e) ==
    CASE e = sqlite -> <<"path">>
      [] e = postgres -> <<"host", "dbname", "user", "password">>
      [] e = mysql -> <<"host", "db", "user", "password">>
      [] e = sqlserver -> <<"server", "database">>
      [] e = oracle -> <<"host", "service_name", "user", "password">>
      [] e = snowflake -> <<"account", "user", "password", "warehouse", "database", "schema">>
      [] e = redshift -> <<"host", "dbname", "user", "password">>
Optional(e) ==
    CASE e = sqlite -> {"timeout"}
      [] e = postgres -> {"port", "sslmode"}
      [] e = mysql -> {"port"}
      [] e = sqlserver -> {"driver", "trusted_connection", "user", "password"}
      [] e = oracle -> {"port"}
      [] e = snowflake -> {"role"}
      [] e = redshift -> {"port", "sslmode"}
Range(seq) == {seq[i] : i \in DOMAIN seq}
Names(e) == Range(Required(e)) \cup Optional(e)

\* the bags: every choice of values for every subset of one engine's names
BagsOver(keys) == UNION {{b \in [D -> UNION {Values(k) : k \in D}] : \A k \in D : b[k] \in Values(k)} : D \in SUBSET keys}
Bags == UNION {BagsOver(Names(e)) : e \in EngineName}

FactoryInit ==
    /\ engine \in EngineTags
    /\ kwargs \in Bags
    /\ made = NotCalled
    /\ self = None
    /\ native = [open |-> {}, made |-> 0]
    /\ installed = TRUE
    /\ pd = TRUE
    /\ scope = "outside"
    /\ last = [op |-> "none"]

Call_get_connector ==
    /\ made = NotCalled
    /\ made' = get_connector(engine, kwargs)
    /\ self' = IF made'.status = "returned" THEN made'.value ELSE self
    /\ UNCHANGED <<native, installed, pd, scope, last, engine, kwargs>>

FactoryNext == Call_get_connector

SpecFactory == FactoryInit /\ [][FactoryNext]_vars

-----------------------------------------------------------------------------
(* Properties of the factory *)

called == made # NotCalled
known == lower(engine) \in EngineName
Absent(names) == {n \in Range(names) : n \notin DOMAIN kwargs}

\* C8: for a known engine and a bag that lacks a required name, get_connector
\* raises the missing-arguments KeyError, whose message names exactly the
\* required names absent from the bag, and no adapter is built.
C8_MissingRequiredNamed ==
    (called /\ known /\ Absent(Required(lower(engine))) # {}) =>
        /\ made.status = "raised"
        /\ made.error.type = "KeyError"
        /\ made.error.msg = "Faltan argumentos requeridos"
        /\ Range(made.error.names) = Absent(Required(lower(engine)))
        /\ Len(made.error.names) = Cardinality(Absent(Required(lower(engine))))
        /\ self = None

\* C8 witness: postgres with only host names dbname, user and password
C8_Witness ==
    /\ called
    /\ engine = postgres
    /\ DOMAIN kwargs = {"host"}
    /\ made = Raised(MissingArguments(<<"dbname", "user", "password">>))
    /\ self = None

\* C9 as claimed: a tag that is none of the seven engines after lower()
\* raises the unsupported-engine ValueError whatever the bag holds, and a
\* ValueError leaves get_connector in that case only.
C9_ValueErrorOnlyForUnknownTag ==
    called =>
        /\ ~known => made = Raised(UnsupportedEngine)
        /\ (made.status = "raised" /\ made.error.type = "ValueError") => ~known

\* C9 as amended: a tag that is none of the seven engines after lower()
\* raises the unsupported-engine ValueError whatever the bag holds, and the
\* unsupported-engine message is raised in that case only; the class
\* ValueError also leaves get_connector for a known engine, when int()
\* rejects the text given as port or timeout.
C9_UnsupportedEngine ==
    called =>
        /\ ~known => made = Raised(UnsupportedEngine) /\ self = None
        /\ (made.status = "raised" /\ made.error = UnsupportedEngine) => ~known
        /\ (made.status = "raised" /\ made.error.type = "ValueError" /\ known) =>
               \E k \in {"port", "timeout"} :
                   /\ k \in DOMAIN kwargs
                   /\ int(kwargs[k]) = Raised(made.error)

\* C9 witness: an unknown tag with a bag that is not empty
C9_Witness ==
    /\ called
    /\ engine = <<"n", "o", "t", "-", "a", "-", "r", "e", "a", "l", "-", "e", "n", "g", "i", "n", "e">>
    /\ DOMAIN kwargs = {"host", "dbname", "user", "password"}
    /\ made = Raised(UnsupportedEngine)

\* the bag's trusted_connection, user and password as the claim reads them
trustedGiven == "trusted_connection" \in DOMAIN kwargs /\ Truthy(kwargs["trusted_connection"])
given(k) == k \in DOMAIN kwargs /\ Truthy(kwargs[k])

\* C10: sqlserver with server and database in the bag: without a true
\* trusted_connection and without both a user and a password that are not
\* empty, get_connector raises the KeyError of the factory and builds no
\* adapter; with a true trusted_connection it returns a trusted adapter
\* whatever user and password are; otherwise a user/password adapter.
C10_SQLServerAuth ==
    (called /\ lower(engine) = sqlserver /\ {"server", "database"} \subseteq DOMAIN kwargs) =>
        /\ (~trustedGiven /\ ~(given("user") /\ given("password"))) =>
               made = Raised(SQLServerAuthRequired) /\ self = None
        /\ trustedGiven =>
               /\ made.status = "returned"
               /\ self.kind = "sqlserver"
               /\ self.args.trusted = BoolV(TRUE)
               /\ self.args.user = None /\ self.args.password = None
        /\ (~trustedGiven /\ given("user") /\ given("password")) =>
               /\ made.status = "returned"
               /\ self.kind = "sqlserver"
               /\ self.args.trusted = BoolV(FALSE)
               /\ self.args.user = kwargs["user"]
               /\ self.args.password = kwargs["password"]

\* C10 witness: trusted_connection false and neither user nor password
C10_Witness ==
    /\ called
    /\ engine = sqlserver
    /\ DOMAIN kwargs = {"server", "database", "trusted_connection"}
    /\ kwargs["trusted_connection"] = BoolV(FALSE)
    /\ made = Raised(SQLServerAuthRequired)
    /\ self = None

-----------------------------------------------------------------------------
(* Properties of the adapters *)

\* a SQL Server adapter with neither auth mode: not trusted, and not both a
\* user and a password
neither(s) ==
    /\ s.kind = "sqlserver"
    /\ ~Truthy(s.args.trusted)
    /\ ~(Truthy(s.args.user) /\ Truthy(s.args.password))

\* C11 as claimed: constructing the SQL Server adapter with neither auth
\* mode raises a configuration error at construction.
C11_RaisesAtConstruction ==
    (last.op = "__init__" /\ neither(self)) => raised

\* C11 as amended: constructing the SQL Server adapter with neither auth
\* mode returns an unconnected adapter; the configuration error is raised by
\* connect(), once the driver is found installed and before any driver call,
\* so the adapter never becomes connected.
C11_NeitherAuthRaisesAtConnect ==
    neither(self) =>
        /\ last.op = "__init__" => returned /\ ~is_connected(self)
        /\ last.op \in {"connect", "__enter__"} =>
             /\ last.out = Raised(IF installed THEN AuthRequired ELSE DriverNotInstalled)
             /\ last.calls = <<>>
        /\ ~is_connected(self)
        /\ native.made = 0

\* C11 witness: connect() on the adapter built with neither auth mode, with
\* the driver installed, has raised the configuration error
C11_Witness ==
    /\ neither(self)
    /\ installed
    /\ last.op = "connect"
    /\ last.out = Raised(AuthRequired)
    /\ ~is_connected(self)

-----------------------------------------------------------------------------
(* Secret masking and the DSN summaries *)

\* longest password drawn for the summaries
MaxSecretLen == 6

\* "*" * n
Stars(n) == [i \in 1..n |-> "*"]

\* as mask_secret, with a secret of one or two characters returned as it is
mask_secret_short_clear(s) ==
    IF ~Truthy(s) THEN <<>>
    ELSE IF Len(s.str) <= 2 THEN s.str
    ELSE <<s.str[1]>> \o Stars(4) \o <<s.str[Len(s.str)]>>

\* mask_secret(s) for s a str or None
mask_secret(s) ==
    IF ~Truthy(s) THEN <<>>
    ELSE IF Len(s.str) <= 2 THEN Stars(Len(s.str))
    ELSE <<s.str[1]>> \o Stars(4) \o <<s.str[Len(s.str)]>>

\* the decimal digits of a natural number
RECURSIVE ToDecimal(_)
ToDecimal(n) ==
    IF n < 10 THEN <<Digits[n + 1]>>
    ELSE ToDecimal(n \div 10) \o <<Digits[(n % 10) + 1]>>

\* a value inside an f-string: str(v)
format(v) ==
    CASE IsStr(v) -> v.str
      [] IsInt(v) -> IF v.int < 0 THEN <<"-">> \o ToDecimal(-v.int) ELSE ToDecimal(v.int)
      [] IsBool(v) -> IF v.bool THEN <<"T", "r", "u", "e">> ELSE <<"F", "a", "l", "s", "e">>
      [] OTHER -> <<"N", "o", "n", "e">>

SQLiteConnector_dsn_summary(s) == <<"s", "q", "l", "i", "t", "e", ":", "/", "/", "/">> \o format(s.args.path)

PostgresConnector_dsn_summary(s) ==
    LET ssl == IF Truthy(s.args.sslmode) THEN <<"?", "s", "s", "l", "m", "o", "d", "e", "=">> \o format(s.args.sslmode) ELSE <<>>
    IN <<"p", "o", "s", "t", "g", "r", "e", "s", "q", "l", ":", "/", "/">> \o format(s.args.user) \o <<":">> \o mask_secret(s.args.password)
       \o <<"@">> \o format(s.args.host) \o <<":">> \o format(s.args.port)
       \o <<"/">> \o format(s.args.dbname) \o ssl

MySQLConnector_dsn_summary(s) ==
    <<"m", "y", "s", "q", "l", ":", "/", "/">> \o format(s.args.user) \o <<"@">> \o format(s.args.host)
    \o <<":">> \o format(s.args.port) \o <<"/">> \o format(s.args.db)

SQLServerConnector_dsn_summary(s) ==
    IF Truthy(s.args.trusted)
    THEN <<"m", "s", "s", "q", "l", ":", "/", "/">> \o <<"t", "r", "u", "s", "t", "e", "d">> \o <<"@">> \o format(s.args.server)
         \o <<"/">> \o format(s.args.database)
    ELSE <<"m", "s", "s", "q", "l", ":", "/", "/">> \o format(s.args.user) \o <<":">> \o mask_secret(s.args.password)
         \o <<"@">> \o format(s.args.server) \o <<"/">> \o format(s.args.database)

OracleConnector_dsn_summary(s) ==
    <<"o", "r", "a", "c", "l", "e", ":", "/", "/">> \o format(s.args.user) \o <<":">> \o mask_secret(s.args.password)
    \o <<"@">> \o format(s.args.host) \o <<":">> \o format(s.args.port)
    \o <<"/">> \o format(s.args.service_name)

SnowflakeConnector_dsn_summary(s) ==
    LET qs == <<"?", "w", "a", "r", "e", "h", "o", "u", "s", "e", "=">> \o format(s.args.warehouse)
              \o (IF Truthy(s.args.role) THEN <<"&", "r", "o", "l", "e", "=">> \o format(s.args.role) ELSE <<>>)
    IN <<"s", "n", "o", "w", "f", "l", "a", "k", "e", ":", "/", "/">> \o format(s.args.user) \o <<":">> \o mask_secret(s.args.password)
       \o <<"@">> \o format(s.args.account) \o <<"/">> \o format(s.args.database)
       \o <<"/">> \o format(s.args.schema) \o qs

RedshiftConnector_dsn_summary(s) ==
    <<"r", "e", "d", "s", "h", "i", "f", "t", ":", "/", "/">> \o format(s.args.user) \o <<":">> \o mask_secret(s.args.password)
    \o <<"@">> \o format(s.args.host) \o <<":">> \o format(s.args.port)
    \o <<"/">> \o format(s.args.dbname) \o <<"?", "s", "s", "l", "m", "o", "d", "e", "=">> \o format(s.args.sslmode)

\* dynamic dispatch of the abstract dsn_summary()
dsn_summary(s) ==
    CASE s.kind = "sqlite" -> SQLiteConnector_dsn_summary(s)
      [] s.kind = "postgres" -> PostgresConnector_dsn_summary(s)
      [] s.kind = "mysql" -> MySQLConnector_dsn_summary(s)
      [] s.kind = "sqlserver" -> SQLServerConnector_dsn_summary(s)
      [] s.kind = "oracle" -> OracleConnector_dsn_summary(s)
      [] s.kind = "snowflake" -> SnowflakeConnector_dsn_summary(s)
      [] s.kind = "redshift" -> RedshiftConnector_dsn_summary(s)

\* the passwords drawn: None, every text of at most MaxSecretLen characters
\* over a letter no other field holds and the mask character, and the text
\* of the user name
SecretChars == {"Z", "*"}
Secrets ==
    {None, StrV(User)}
    \cup {StrV(t) : t \in UNION {[1..k -> SecretChars] : k \in 0..MaxSecretLen}}

\* the connectors whose summary is taken: every adapter with every password
SummaryConnectors ==
    {SQLiteConnector(StrV(GoodPath), IntV(5))}
    \cup UNION { { PostgresConnector(StrV(Host), IntV(5432), StrV(Db), StrV(User), p, None),
                   PostgresConnector(StrV(Host), IntV(5432), StrV(Db), StrV(User), p, StrV(Require)),
                   MySQLConnector(StrV(Host), IntV(3306), StrV(Db), StrV(User), p),
                   SQLServerConnector(StrV(Host), StrV(Db), None, None, StrV(Odbc17), BoolV(TRUE)),
                   SQLServerConnector(StrV(Host), StrV(Db), StrV(User), p, StrV(Odbc17), BoolV(FALSE)),
                   OracleConnector(StrV(Host), IntV(1521), StrV(Db), StrV(User), p),
                   SnowflakeConnector(StrV(Host), StrV(User), p, StrV(Db), StrV(Db), StrV(Db), None),
                   SnowflakeConnector(StrV(Host), StrV(User), p, StrV(Db), StrV(Db), StrV(Db), StrV(Db)),
                   RedshiftConnector(StrV(Host), IntV(5439), StrV(Db), StrV(User), p, StrV(Require)) }
                 : p \in Secrets }

SummaryInit ==
    /\ self \in SummaryConnectors
    /\ native = [open |-> {}, made |-> 0]
    /\ installed = TRUE
    /\ pd = TRUE
    /\ scope = "outside"
    /\ last = Called("__init__", None, Result(self, native, Returned(None), <<>>), NoError)
    /\ engine = <<>>
    /\ kwargs = NoBag
    /\ made = NotCalled

Call_dsn_summary ==
    /\ last.op = "__init__"
    /\ last' = Called("dsn_summary", self.conn,
                      Result(self, native, Returned(StrV(dsn_summary(self))), <<>>), NoError)
    /\ UNCHANGED <<self, native, installed, pd, scope, engine, kwargs, made>>

SummaryNext == Call_dsn_summary

SpecSummary == SummaryInit /\ [][SummaryNext]_vars

-----------------------------------------------------------------------------
(* Properties of the summaries *)

\* text p occurs in text t
Contains(t, p) == \E i \in 0..(Len(t) - Len(p)) : SubSeq(t, i + 1, i + Len(p)) = p

\* the adapter's secret, None for the adapter that holds none
secret(s) == IF "password" \in DOMAIN s.args THEN s.args.password ELSE None
summarised == last.op = "dsn_summary"
summary == last.out.value.str

\* the masked form as the interface states it
MaskedForm(p) ==
    IF ~IsStr(p) \/ p = StrV(<<>>) THEN <<>>
    ELSE IF Len(p.str) <= 2 THEN [i \in 1..Len(p.str) |-> "*"]
    ELSE <<p.str[1], "*", "*", "*", "*", p.str[Len(p.str)]>>

\* the summary of the same adapter holding another password
SummaryWith(q) ==
    IF "password" \in DOMAIN self.args
    THEN dsn_summary([self EXCEPT !.args.password = q])
    ELSE dsn_summary(self)

\* C12 as claimed: for every adapter and every password that is not empty,
\* the summary never contains the literal password.
C12_NoLiteralSecret ==
    (summarised /\ Truthy(secret(self))) => ~Contains(summary, secret(self).str)

\* C12 as amended: the summary takes the password only through mask_secret,
\* whose result is the first character, four mask characters and the last
\* character for a length above 2, all mask characters for a length of 1 or
\* 2, and empty for an empty or absent password: passwords with the same
\* masked form give the same summary, and a password none of whose
\* characters is the mask character or occurs in the rest of the summary is
\* not contained in it.
C12_SecretOnlyMasked ==
    summarised =>
        /\ mask_secret(secret(self)) = MaskedForm(secret(self))
        /\ \A q \in Secrets :
               MaskedForm(q) = MaskedForm(secret(self)) => SummaryWith(q) = summary
        /\ (self.kind \in {"postgres", "oracle", "snowflake", "redshift"} \/ (self.kind = "sqlserver" /\ ~Truthy(self.args.trusted)))
               => Contains(summary, <<":">> \o MaskedForm(secret(self)) \o <<"@">>)
        /\ (/\ Truthy(secret(self))
            /\ \A i \in DOMAIN secret(self).str :
                   /\ secret(self).str[i] # "*"
                   /\ ~Contains(SummaryWith(None), <<secret(self).str[i]>>))
               => ~Contains(summary, secret(self).str)

\* C12 witness: the summary of a Postgres adapter with password ZZ*Z
C12_Witness ==
    /\ summarised
    /\ self.kind = "postgres"
    /\ self.args.sslmode = None
    /\ secret(self) = StrV(<<"Z", "Z", "*", "Z">>)
    /\ summary = <<"p", "o", "s", "t", "g", "r", "e", "s", "q", "l", ":", "/", "/", "u", ":", "Z", "*", "*", "*", "*", "Z", "@", "h", ":", "5", "4", "3", "2", "/", "d">>

-----------------------------------------------------------------------------
(* Properties of the adapters the factory builds *)

built == called /\ made.status = "returned"
tag == lower(engine)

\* the defaults of the parameter table
DocumentedDriver == <<"O", "D", "B", "C", " ", "D", "r", "i", "v", "e", "r", " ", "1", "7", " ", "f", "o", "r", " ", "S", "Q", "L", " ", "S", "e", "r", "v", "e", "r">>
DocumentedSslmode == <<"r", "e", "q", "u", "i", "r", "e">>

\* the optional parameter k as the adapter holds it: the default when the
\* bag lacks k, else the supplied value
Supplied(k, default) == IF k \in DOMAIN kwargs THEN kwargs[k] ELSE default

\* a supplied number: an int as it is, a text of digits as the number it
\* denotes
AsNumber(v) ==
    IF IsInt(v) THEN v ELSE IF IsBool(v) THEN IntV(IF v.bool THEN 1 ELSE 0)
    ELSE IntV(DecimalValue(v.str))

\* a supplied flag: a bool as it is, any other value as its truth value
AsFlag(v) == IF IsBool(v) THEN v ELSE BoolV(Truthy(v))

\* C13: an adapter the factory builds holds, for every optional parameter
\* the bag lacks, the documented default (sqlite timeout 5; postgres port
\* 5432, sslmode none; mysql port 3306; sqlserver driver "ODBC Driver 17 for
\* SQL Server", trusted_connection false; oracle port 1521; snowflake role
\* none; redshift port 5439, sslmode "require"), and for every optional
\* parameter the bag holds, the supplied value (a port or timeout as the
\* number it denotes, trusted_connection as its truth value).
C13_Defaults ==
    built =>
        CASE tag = sqlite ->
               self.args.timeout = AsNumber(Supplied("timeout", IntV(5)))
          [] tag = postgres ->
               /\ self.args.port = AsNumber(Supplied("port", IntV(5432)))
               /\ self.args.sslmode = Supplied("sslmode", None)
          [] tag = mysql ->
               self.args.port = AsNumber(Supplied("port", IntV(3306)))
          [] tag = sqlserver ->
               /\ self.args.driver = Supplied("driver", StrV(DocumentedDriver))
               /\ self.args.trusted = AsFlag(Supplied("trusted_connection", BoolV(FALSE)))
          [] tag = oracle ->
               self.args.port = AsNumber(Supplied("port", IntV(1521)))
          [] tag = snowflake ->
               self.args.role = Supplied("role", None)
          [] tag = redshift ->
               /\ self.args.port = AsNumber(Supplied("port", IntV(5439)))
               /\ self.args.sslmode = Supplied("sslmode", StrV(DocumentedSslmode))

\* C13 witness: redshift built from its four required parameters alone
C13_Witness ==
    /\ built
    /\ engine = redshift
    /\ DOMAIN kwargs = {"host", "dbname", "user", "password"}
    /\ self.args.port = IntV(5439)
    /\ self.args.sslmode = StrV(DocumentedSslmode)

\* the adapter variant of an engine name
KindOf(e) ==
    CASE e = sqlite -> "sqlite"
      [] e = postgres -> "postgres"
      [] e = mysql -> "mysql"
      [] e = sqlserver -> "sqlserver"
      [] e = oracle -> "oracle"
      [] e = snowflake -> "snowflake"
      [] e = redshift -> "redshift"

\* the bag holds every required parameter, for sqlserver also an auth mode
complete ==
    /\ known
    /\ Absent(Required(tag)) = {}
    /\ tag = sqlserver => trustedGiven \/ (given("user") /\ given("password"))

\* every port or timeout the bag holds is an int, a bool or a text of digits
numeric(v) ==
    \/ IsInt(v)
    \/ IsBool(v)
    \/ IsStr(v) /\ Len(v.str) > 0 /\ \A i \in DOMAIN v.str : IsDigit(v.str[i])
convertible ==
    /\ (tag = sqlite /\ "timeout" \in DOMAIN kwargs) => numeric(kwargs["timeout"])
    /\ (tag \in {postgres, mysql, oracle, redshift} /\ "port" \in DOMAIN kwargs)
           => numeric(kwargs["port"])

\* the adapter is of the variant of the tag, holds the required values of
\* the bag, and is unconnected with no native connection made
matching ==
    /\ self.kind = KindOf(tag)
    /\ \A k \in Range(Required(tag)) : self.args[k] = kwargs[k]
    /\ self = made.value
    /\ self.conn = None
    /\ ~is_connected(self)
    /\ native = [open |-> {}, made |-> 0]

-----------------------------------------------------------------------------
(* Properties of the optional dependencies *)

\* the kinds of the other errors this layer raises, and of the driver's
LayerKinds == {NotConnected.type, AuthRequired.type, PandasNotInstalled.type}
NativeKinds == {DriverError("connect").type}

\* C15: connect() of an adapter whose driver is not installed raises, before
\* any other check or driver call and leaving the instance unconnected, an
\* error of a kind of its own: not the kind of a native driver error nor of
\* another error of this layer (not connected, configuration invalid).
C15_DriverMissingDistinct ==
    (last.op = "connect" /\ ~installed) =>
        /\ raised
        /\ last.calls = <<>>
        /\ ~is_connected(self)
        /\ last.out.error.type \notin NativeKinds
        /\ last.out.error.type \notin LayerKinds

reads == last.op \in {"read_sql", "read_sql_chunks"}

\* C16: read_sql and read_sql_chunks raise the capability-missing error when
\* pandas is absent, connected or not and without a call on the handle; with
\* pandas present they raise not-connected on an unconnected instance, and
\* otherwise make one call of the library on the live handle, whose outcome
\* is theirs; they leave the handle as it was.
C16_Reads ==
    reads =>
        /\ self.conn = last.pre
        /\ ~pd => last.out = Raised(PandasNotInstalled) /\ last.calls = <<>>
        /\ (pd /\ last.pre = None) => last.out = Raised(NotConnected) /\ last.calls = <<>>
        /\ (pd /\ last.pre # None) =>
             /\ Len(last.calls) = 1
             /\ Made("pd.read_sql") = {1}
             /\ last.calls[1].con = last.pre
             /\ last.calls[1].con.handle \in native.open
             /\ returned <=> Ok("pd.read_sql")

\* C16 witness: read_sql_chunks on a connected instance without pandas
C16_Witness ==
    /\ last.op = "read_sql_chunks"
    /\ ~pd
    /\ last.pre # None
    /\ last.out = Raised(PandasNotInstalled)

-----------------------------------------------------------------------------
(* Properties of the native handles *)

\* C17: at most one native connection opened by the connector is open at
\* any time, across any sequence of connect() and close() calls, also when
\* connect() is called twice without a close() in between.
C17_AtMostOneLive ==
    Cardinality(native.open) <= 1

-----------------------------------------------------------------------------
(* Properties of the cursors *)

\* the latest call ran the base implementation of query, execute or ping
\* (OracleConnector overrides ping)
base ==
    \/ last.op \in {"query", "execute"}
    \/ last.op = "ping" /\ self.kind # "oracle"

\* the driver's cur.close() returns
Closing(env) == [env EXCEPT !.curclose = TRUE]

\* C19: in the base query(), execute() and ping(), a cursor the handle gave
\* is closed as the last driver call, after a statement or fetch that
\* failed as after one that succeeded, and no close is called when no
\* cursor was given; whether cur.close() itself raises changes neither the
\* outcome nor the connector; the handle, and so is_connected, is as before.
C19_CursorClosed ==
    /\ base =>
         /\ Ok("cursor") =>
              /\ Cardinality(Made("cursor")) = 1
              /\ Made("cur.close") = {Len(last.calls)}
         /\ ~Ok("cursor") => Made("cur.close") = {}
         /\ self.conn = last.pre
         /\ is_connected(self) <=> last.pre # None
    /\ \A env \in CursorEnv :
         /\ query(self, native, env).out = query(self, native, Closing(env)).out
         /\ query(self, native, env).self = self
         /\ execute(self, native, env).out = execute(self, native, Closing(env)).out
         /\ execute(self, native, env).self = self
         /\ DatabaseConnector_ping(self, native, env).out
                = DatabaseConnector_ping(self, native, Closing(env)).out
         /\ DatabaseConnector_ping(self, native, env).self = self

\* C19 witness: query() whose fetch failed and whose cur.close() failed too
C19_Witness ==
    /\ last.op = "query"
    /\ Failed("fetchall")
    /\ Failed("cur.close")
    /\ last.out = Raised(DriverError("fetchall"))
    /\ is_connected(self)

-----------------------------------------------------------------------------
(* scripts/connect.py: the command line runner _run(engine, args) *)

Select1 == <<"S", "E", "L", "E", "C", "T", " ", "1">>
KeyboardInterrupt == Err("KeyboardInterrupt", "")

\* the argparse namespace of a subcommand: the flags that decide the path of
\* _run; the other arguments are given (or defaulted) as the parser requires
Namespace(usr, trusted, flag, sql) ==
    [path |-> StrV(GoodPath), timeout |-> IntV(5), host |-> StrV(Host),
     server |-> StrV(Host), account |-> StrV(Host), dbname |-> StrV(Db),
     db |-> StrV(Db), database |-> StrV(Db), service_name |-> StrV(Db),
     warehouse |-> StrV(Db), schema |-> StrV(Db), role |-> None,
     driver |-> StrV(Odbc17), user |-> usr,
     trusted_connection |-> trusted, password |-> flag,
     query |-> sql]

\* sqlserver alone has an optional --user and --trusted-connection; sqlite
\* has no --password
Namespaces(e) ==
    { Namespace(u, t, p, q) :
        u \in (IF e = sqlserver THEN {None, StrV(User)} ELSE {StrV(User)}),
        t \in (IF e = sqlserver THEN BOOLEAN ELSE {FALSE}),
        p \in (IF e = sqlite THEN {FALSE} ELSE BOOLEAN),
        q \in {None, StrV(Select1)} }

\* what the user types at a getpass() prompt
Typed == {StrV(<<>>), StrV(Pw)}

\* getpass("Password: ") if args.password else None
_password_if_flag(args, typed) == IF args.password THEN typed ELSE None

\* Python's `a or b`
Or(a, b) == IF Truthy(a) THEN a ELSE b

\* the bag _run builds for the engine, or the usage error it returns 2 for
Kw(kw) == [status |-> "kw", kw |-> kw]
UsageError == [status |-> "usage"]

_run_kw(e, args, typed, again) ==
    LET pwd == _password_if_flag(args, typed)
    IN CASE e = sqlite -> Kw([path |-> args.path, timeout |-> args.timeout])
         [] e = postgres ->
              Kw([host |-> args.host, port |-> IntV(5432), dbname |-> args.dbname,
                  user |-> args.user, password |-> Or(pwd, StrV(<<>>)),
                  sslmode |-> None])
         [] e = mysql ->
              Kw([host |-> args.host, port |-> IntV(3306), db |-> args.db,
                  user |-> args.user, password |-> Or(pwd, StrV(<<>>))])
         [] e = sqlserver ->
              IF args.trusted_connection
              THEN Kw([server |-> args.server, database |-> args.database,
                       driver |-> args.driver, trusted_connection |-> BoolV(TRUE)])
              ELSE IF ~Truthy(args.user) THEN UsageError
              ELSE Kw([server |-> args.server, database |-> args.database,
                       user |-> args.user, password |-> Or(pwd, again),
                       driver |-> args.driver, trusted_connection |-> BoolV(FALSE)])
         [] e = oracle ->
              Kw([host |-> args.host, port |-> IntV(1521),
                  service_name |-> args.service_name, user |-> args.user,
                  password |-> Or(pwd, StrV(<<>>))])
         [] e = snowflake ->
              Kw([account |-> args.account, user |-> args.user,
                  password |-> Or(pwd, StrV(<<>>)), warehouse |-> args.warehouse,
                  database |-> args.database, schema |-> args.schema,
                  role |-> args.role])
         [] e = redshift ->
              Kw([host |-> args.host, port |-> IntV(5439), dbname |-> args.dbname,
                  user |-> args.user, password |-> Or(pwd, StrV(<<>>)),
                  sslmode |-> StrV(Require)])
         [] OTHER -> UsageError

\* one call of _run on the connector and how it ended
Step(name, ok, error) == [call |-> name, ok |-> ok, error |-> error]

\* the run so far: the calls made on the connector, what the try block ended
\* with (delivered once the finally clause has run), and what _run ended with
Run(calls, pending, out) ==
    [op |-> "_run", pre |-> None, out |-> out, calls |-> calls, pending |-> pending]

\* return <code>
Exit(code) == Returned(IntV(code))

\* the `if args.query:` block: read_sql() when pandas can be imported, and
\* query() when the import or read_sql() raised an Exception; an Exception
\* of query() is `return 2`, a KeyboardInterrupt leaves both handlers
_run_query(s, nat, lib, env, ok, interrupted) ==
    LET rs == read_sql(s, nat, lib, None, ok).out
        q == query(s, nat, env).out
        tried == IF lib THEN <<Step("read_sql", FALSE, rs.error)>> ELSE <<>>
    IN IF lib /\ interrupted = "read_sql"
       THEN [calls |-> <<Step("read_sql", FALSE, KeyboardInterrupt)>>,
             pending |-> Raised(KeyboardInterrupt)]
       ELSE IF lib /\ rs.status = "returned"
       THEN [calls |-> <<Step("read_sql", TRUE, NoError)>>, pending |-> Exit(0)]
       ELSE IF interrupted = "query"
       THEN [calls |-> tried \o <<Step("query", FALSE, KeyboardInterrupt)>>,
             pending |-> Raised(KeyboardInterrupt)]
       ELSE IF q.status = "raised"
       THEN [calls |-> tried \o <<Step("query", FALSE, q.error)>>, pending |-> Exit(2)]
       ELSE [calls |-> tried \o <<Step("query", TRUE, NoError)>>, pending |-> Exit(0)]

\* the except clauses of the outer try: KeyboardInterrupt is `return 130`,
\* any other Exception `return 1`
_run_except(pending) ==
    IF pending.status = "raised"
    THEN IF pending.error = KeyboardInterrupt THEN Exit(130) ELSE Exit(1)
    ELSE pending

CliEngines == EngineName \cup UnknownTags

CliInit ==
    /\ engine \in CliEngines
    /\ kwargs \in Namespaces(engine)
    /\ made = NotCalled
    /\ self = None
    /\ native = [open |-> {}, made |-> 0]
    /\ installed \in (IF engine = sqlite THEN {TRUE} ELSE BOOLEAN)
    /\ pd \in BOOLEAN
    /\ scope = "start"
    /\ last = Run(<<>>, NotCalled, NotCalled)

\* the engine branches, then connector = get_connector(engine, **kw), which
\* stands before the try
Run_get_connector ==
    \E typed, again \in Typed :
        LET k == _run_kw(engine, kwargs, typed, again)
            m == get_connector(engine, k.kw)
        IN /\ scope = "start"
           /\ IF k.status = "usage"
              THEN /\ last' = Run(last.calls, NotCalled, Exit(2))
                   /\ scope' = "exited"
                   /\ UNCHANGED <<self, made>>
              ELSE /\ made' = m
                   /\ IF m.status = "raised"
                      THEN /\ last' = Run(last.calls, NotCalled, Raised(m.error))
                           /\ scope' = "exited"
                           /\ UNCHANGED self
                      ELSE /\ self' = m.value
                           /\ scope' = "connect"
                           /\ UNCHANGED last
           /\ UNCHANGED <<native, installed, pd, engine, kwargs>>

\* connector.connect()
Run_connect ==
    \E env \in ConnectEnv, interrupted \in BOOLEAN :
        LET r == connect(self, native, installed, env)
        IN /\ scope = "connect"
           /\ IF interrupted
              THEN /\ last' = Run(last.calls \o <<Step("connect", FALSE, KeyboardInterrupt)>>,
                                  Raised(KeyboardInterrupt), NotCalled)
                   /\ scope' = "finally"
                   /\ UNCHANGED <<self, native>>
              ELSE /\ self' = r.self
                   /\ native' = r.native
                   /\ IF r.out.status = "raised"
                      THEN /\ last' = Run(last.calls \o <<Step("connect", FALSE, r.out.error)>>,
                                          r.out, NotCalled)
                           /\ scope' = "finally"
                      ELSE /\ last' = Run(last.calls \o <<Step("connect", TRUE, NoError)>>,
                                          NotCalled, NotCalled)
                           /\ scope' = "ping"
           /\ UNCHANGED <<installed, pd, engine, kwargs, made>>

\* print(dsn_summary(), ping()), then `return 0` unless a query was given
Run_ping ==
    \E env \in CursorEnv, interrupted \in BOOLEAN :
        LET r == ping(self, native, env)
        IN /\ scope = "ping"
           /\ IF interrupted
              THEN /\ last' = Run(last.calls \o <<Step("ping", FALSE, KeyboardInterrupt)>>,
                                  Raised(KeyboardInterrupt), NotCalled)
                   /\ scope' = "finally"
              ELSE IF r.out.status = "raised"
              THEN /\ last' = Run(last.calls \o <<Step("ping", FALSE, r.out.error)>>,
                                  r.out, NotCalled)
                   /\ scope' = "finally"
              ELSE IF Truthy(kwargs.query)
              THEN /\ last' = Run(last.calls \o <<Step("ping", r.out.value.bool, NoError)>>,
                                  NotCalled, NotCalled)
                   /\ scope' = "query"
              ELSE /\ last' = Run(last.calls \o <<Step("ping", r.out.value.bool, NoError)>>,
                                  Exit(0), NotCalled)
                   /\ scope' = "finally"
           /\ UNCHANGED <<self, native, installed, pd, engine, kwargs, made>>

Run_query ==
    \E env \in CursorEnv, ok \in BOOLEAN, interrupted \in {"no", "read_sql", "query"} :
        LET r == _run_query(self, native, pd, env, ok, interrupted)
        IN /\ scope = "query"
           /\ interrupted = "read_sql" => pd
           /\ last' = Run(last.calls \o r.calls, r.pending, NotCalled)
           /\ scope' = "finally"
           /\ UNCHANGED <<self, native, installed, pd, engine, kwargs, made>>

\* finally: try: connector.close() except Exception: pass -- and then what
\* the except clauses made of the try block
Run_finally ==
    \E env \in CloseEnv :
        LET r == close(self, native, env)
        IN /\ scope = "finally"
           /\ self' = r.self
           /\ native' = r.native
           /\ last' = Run(last.calls \o <<Step("close", r.out.status = "returned", r.out.error)>>,
                          last.pending, _run_except(last.pending))
           /\ scope' = "exited"
           /\ UNCHANGED <<installed, pd, engine, kwargs, made>>

CliNext ==
    \/ Run_get_connector
    \/ Run_connect
    \/ Run_ping
    \/ Run_query
    \/ Run_finally

SpecCli == CliInit /\ [][CliNext]_vars

-----------------------------------------------------------------------------
(* Properties of the command line runner *)

exited == scope = "exited"
wasInterrupted == \E i \in DOMAIN last.calls : last.calls[i].error = KeyboardInterrupt

\* the documented exit code of what happened in the run
Documented ==
    IF made = NotCalled THEN 2
    ELSE IF wasInterrupted THEN 130
    ELSE IF Failed("connect") THEN 1
    ELSE IF Failed("query") THEN 2
    ELSE 0

\* C18: every run of _run ends with the documented exit code of what
\* happened -- 0 success, 1 connection error, 2 usage or query error, 130
\* interrupt -- also when the factory raised a configuration error, and
\* close() is called on the connector, last of all, once it was built.
C18_ExitCodes ==
    exited =>
        /\ last.out.status = "returned"
        /\ last.out.value \in {IntV(0), IntV(1), IntV(2), IntV(130)}
        /\ made.status = "returned" =>
             /\ last.out.value = IntV(Documented)
             /\ Made("close") = {Len(last.calls)}
        /\ made = NotCalled => last.out.value = IntV(2) /\ last.calls = <<>>

=============================================================================
